---------------------------- MODULE Spec2Model ----------------------------
(***************************************************************************)
(* Model of gkwa/everyonenorth, src/core/core.go: Run(cwd) resolves the     *)
(* repository name and the current branch, runs git shortlog, parses the   *)
(* summary, attaches a search URL to every author and writes authors.md.   *)
(*                                                                         *)
(* A Go string is modelled as a sequence of bytes; a byte is written as a  *)
(* one-character TLA+ string, so <<"a","b">> is the Go string "ab".        *)
(***************************************************************************)
EXTENDS Integers, Sequences, FiniteSets, TLC

VARIABLES
    pc,             \* position of Run: the stage about to execute
    run,            \* number of the invocation of the program (1, 2, ...)
    cmdRes,         \* what the last external command returned
    repoName,       \* Run's local repoName
    currentBranch,  \* Run's local currentBranch
    output,         \* Run's local output (the shortlog text)
    authors,        \* Run's local authors
    authorsWithURL, \* Run's local authorsWithURL
    file,           \* content of authors.md on disk, or NoFile
    fileAtStart,    \* content of authors.md when this invocation started
    created,        \* os.Create has succeeded in this invocation
    buf,            \* bufio.Writer: the buffered bytes
    werr,           \* bufio.Writer: the sticky error b.err
    idx,            \* writeMarkdownFile: index of the record of the range loop
    calls,          \* Write calls still to make for the current record
    msgs,           \* lines printed by this invocation, in order
    stages          \* stages this invocation has entered, in order

vars == <<pc, run, cmdRes, repoName, currentBranch, output, authors,
          authorsWithURL, file, fileAtStart, created, buf, werr, idx, calls,
          msgs, stages>>

-----------------------------------------------------------------------------
(* Bounds of the model.                                                    *)

\* invocations of the program that follow one another
MaxRuns == 2
\* length of the part of a remote URL after its prefix
MaxBodyLen == 5
\* length of a shortlog text of the parser specification
MaxTextLen == 6
\* length of an author name of the link specification
MaxNameLen == 3
\* records of an author list of the link specification
MaxAuthors == 2
\* size of the bufio.Writer buffer (4096 in Go's bufio, scaled down)
BufSize == 8
\* bufio.MaxScanTokenSize (64 * 1024 in Go's bufio, scaled down)
MaxScanTokenSize == 6

-----------------------------------------------------------------------------
(* Bytes and strings.                                                      *)

\* authors.md does not exist: no content, told apart from the empty content
NoFile == <<"no file">>
NoErr == "nil"
Empty == <<>>

Range(s) == {s[i] : i \in DOMAIN s}

\* the printable ASCII characters in the order of their codes, 32 to 126
Printable ==
    <<" ","!","\"","#","$","%","&","'","(",")","*","+",",","-",".","/",
      "0","1","2","3","4","5","6","7","8","9",":",";","<","=",">","?",
      "@","A","B","C","D","E","F","G","H","I","J","K","L","M","N","O",
      "P","Q","R","S","T","U","V","W","X","Y","Z","[","\\","]","^","_",
      "BACKTICK","a","b","c","d","e","f","g","h","i","j","k","l","m","n","o",
      "p","q","r","s","t","u","v","w","x","y","z","{","|","}","~">>

CodeTable ==
    [c \in Range(Printable) \cup {"\t", "\n", "\r"} |->
        IF c = "\t" THEN 9
        ELSE IF c = "\n" THEN 10
        ELSE IF c = "\r" THEN 13
        ELSE 31 + (CHOOSE i \in DOMAIN Printable : Printable[i] = c)]

\* the byte value of a character
Code(c) == CodeTable[c]

\* the character of a byte value; every byte outside the table is "NONASCII"
CharOf(n) ==
    IF n \in 32..126 THEN Printable[n - 31]
    ELSE IF n = 9 THEN "\t"
    ELSE IF n = 10 THEN "\n"
    ELSE IF n = 13 THEN "\r"
    ELSE "NONASCII"

IsLetter(c) == (Code(c) \in 97..122) \/ (Code(c) \in 65..90)
IsDigit(c) == Code(c) \in 48..57

\* unicode.IsSpace on the ASCII range: bytes 9 to 13 and 32
IsSpace(c) == Code(c) \in {9, 10, 11, 12, 13, 32}

Drop(s, n) == SubSeq(s, n + 1, Len(s))
Take(s, n) == SubSeq(s, 1, n)

HasPrefix(s, p) == Len(s) >= Len(p) /\ Take(s, Len(p)) = p
HasSuffix(s, p) == Len(s) >= Len(p) /\ Drop(s, Len(s) - Len(p)) = p

\* strings.TrimSuffix
TrimSuffix(s, p) == IF HasSuffix(s, p) THEN Take(s, Len(s) - Len(p)) ELSE s

\* strings.IndexByte: the first position of c in s, 0 when absent
Index(s, c) ==
    IF \E i \in DOMAIN s : s[i] = c
    THEN CHOOSE i \in DOMAIN s : s[i] = c /\ \A j \in 1..(i - 1) : s[j] # c
    ELSE 0

\* strings.LastIndexByte
LastIndex(s, c) ==
    IF \E i \in DOMAIN s : s[i] = c
    THEN CHOOSE i \in DOMAIN s : s[i] = c /\ \A j \in (i + 1)..Len(s) : s[j] # c
    ELSE 0

Contains(s, c) == \E i \in DOMAIN s : s[i] = c

\* strings.Count for a one-byte separator
Count(s, c) == Cardinality({i \in DOMAIN s : s[i] = c})

\* strings.Cut for a one-byte separator
CutBefore(s, c) == IF Contains(s, c) THEN Take(s, Index(s, c) - 1) ELSE s
CutAfter(s, c) == IF Contains(s, c) THEN Drop(s, Index(s, c)) ELSE Empty

\* strings.Split for a one-byte separator: always at least one part
RECURSIVE Split(_, _)
Split(s, c) ==
    IF Contains(s, c)
    THEN <<Take(s, Index(s, c) - 1)>> \o Split(Drop(s, Index(s, c)), c)
    ELSE <<s>>

\* strings.TrimSpace
RECURSIVE TrimLeft(_)
TrimLeft(s) == IF s # Empty /\ IsSpace(s[1]) THEN TrimLeft(Tail(s)) ELSE s
RECURSIVE TrimRight(_)
TrimRight(s) ==
    IF s # Empty /\ IsSpace(s[Len(s)]) THEN TrimRight(Take(s, Len(s) - 1)) ELSE s
TrimSpace(s) == TrimRight(TrimLeft(s))

\* strings.Fields: the maximal runs of non-space bytes
RECURSIVE FieldsFrom(_, _)
FieldsFrom(s, cur) ==
    IF s = Empty THEN (IF cur = Empty THEN <<>> ELSE <<cur>>)
    ELSE IF IsSpace(s[1])
         THEN (IF cur = Empty THEN <<>> ELSE <<cur>>) \o FieldsFrom(Tail(s), Empty)
         ELSE FieldsFrom(Tail(s), Append(cur, s[1]))
Fields(s) == FieldsFrom(s, Empty)

\* strings.Join
RECURSIVE Join(_, _)
Join(parts, sep) ==
    IF parts = <<>> THEN Empty
    ELSE IF Len(parts) = 1 THEN parts[1]
    ELSE parts[1] \o sep \o Join(Tail(parts), sep)

\* all strings over an alphabet of at most n bytes
StringsUpTo(alphabet, n) == UNION {[1..k -> alphabet] : k \in 0..n}

-----------------------------------------------------------------------------
(* net/url: escaping and parsing, as the standard library does them.       *)

HexDigits == <<"0","1","2","3","4","5","6","7","8","9","A","B","C","D","E","F">>

\* net/url ishex and unhex: both cases of the letters are accepted
IsHex(c) == IsDigit(c) \/ (Code(c) \in 65..70) \/ (Code(c) \in 97..102)
UnHex(c) ==
    IF IsDigit(c) THEN Code(c) - 48
    ELSE IF Code(c) \in 97..102 THEN Code(c) - 97 + 10
    ELSE Code(c) - 65 + 10

IsAlnum(c) == IsLetter(c) \/ IsDigit(c)

\* net/url shouldEscape(c, encodeQueryComponent): everything but the
\* unreserved characters is escaped
shouldEscapeQuery(c) == ~(IsAlnum(c) \/ c \in {"-", "_", ".", "~"})

\* net/url QueryEscape: ' ' becomes '+', an escaped byte becomes %XX
RECURSIVE QueryEscape(_)
QueryEscape(s) ==
    IF s = Empty THEN Empty
    ELSE (IF s[1] = " " THEN <<"+">>
          ELSE IF shouldEscapeQuery(s[1])
               THEN <<"%", HexDigits[(Code(s[1]) \div 16) + 1],
                      HexDigits[(Code(s[1]) % 16) + 1]>>
               ELSE <<s[1]>>)
         \o QueryEscape(Tail(s))

\* net/url unescape, first pass: every '%' is followed by two hex digits
RECURSIVE EscapesValid(_)
EscapesValid(s) ==
    IF s = Empty THEN TRUE
    ELSE IF s[1] = "%"
         THEN Len(s) >= 3 /\ IsHex(s[2]) /\ IsHex(s[3]) /\ EscapesValid(Drop(s, 3))
         ELSE EscapesValid(Tail(s))

\* net/url unescape, second pass
RECURSIVE Decode(_, _)
Decode(s, plusIsSpace) ==
    IF s = Empty THEN Empty
    ELSE IF s[1] = "%"
         THEN <<CharOf(16 * UnHex(s[2]) + UnHex(s[3]))>> \o Decode(Drop(s, 3), plusIsSpace)
         ELSE IF s[1] = "+" /\ plusIsSpace
              THEN <<" ">> \o Decode(Tail(s), plusIsSpace)
              ELSE <<s[1]>> \o Decode(Tail(s), plusIsSpace)

\* net/url unescape for the modes that check nothing but the escapes
\* (encodePath, encodeFragment, encodeQueryComponent)
unescape(s, plusIsSpace) ==
    IF EscapesValid(s)
    THEN [err |-> NoErr, val |-> Decode(s, plusIsSpace)]
    ELSE [err |-> "invalid URL escape", val |-> Empty]

\* net/url getScheme
RECURSIVE getSchemeAt(_, _)
getSchemeAt(raw, i) ==
    IF i > Len(raw) THEN [err |-> NoErr, scheme |-> Empty, rest |-> raw]
    ELSE IF IsLetter(raw[i]) THEN getSchemeAt(raw, i + 1)
    ELSE IF IsDigit(raw[i]) \/ raw[i] \in {"+", "-", "."}
         THEN (IF i = 1 THEN [err |-> NoErr, scheme |-> Empty, rest |-> raw]
               ELSE getSchemeAt(raw, i + 1))
    ELSE IF raw[i] = ":"
         THEN (IF i = 1
               THEN [err |-> "missing protocol scheme", scheme |-> Empty, rest |-> Empty]
               ELSE [err |-> NoErr, scheme |-> Take(raw, i - 1), rest |-> Drop(raw, i)])
    ELSE [err |-> NoErr, scheme |-> Empty, rest |-> raw]
getScheme(raw) == getSchemeAt(raw, 1)

\* net/url validOptionalPort
validOptionalPort(port) ==
    port = Empty \/ (port[1] = ":" /\ \A i \in 2..Len(port) : IsDigit(port[i]))

\* the bytes unescape(host, encodeHost) accepts unescaped
HostByteOK(c) ==
    IsAlnum(c) \/ c \in {"!", "$", "&", "'", "(", ")", "*", "+", ",", ";", "=",
                         ":", "[", "]", "<", ">", "\"", "-", "_", ".", "~"}

\* net/url parseHost, for a host without '[' and '%'
parseHostErr(host) ==
    IF Contains(host, ":") /\ ~validOptionalPort(Drop(host, LastIndex(host, ":") - 1))
    THEN "invalid port after host"
    ELSE IF \E i \in DOMAIN host : ~HostByteOK(host[i])
         THEN "invalid character in host name"
         ELSE NoErr

\* net/url validUserinfo
UserinfoByteOK(c) ==
    IsAlnum(c) \/ c \in {"-", ".", "_", ":", "~", "!", "$", "&", "'", "(", ")",
                         "*", "+", ",", ";", "=", "%", "@"}

\* net/url parseAuthority: the error it returns
parseAuthorityErr(authority) ==
    LET i == LastIndex(authority, "@")
        hostErr == parseHostErr(Drop(authority, i))
    IN  IF hostErr # NoErr THEN hostErr
        ELSE IF i = 0 THEN NoErr
        ELSE IF \E k \in 1..(i - 1) : ~UserinfoByteOK(authority[k])
             THEN "invalid userinfo"
             ELSE unescape(Take(authority, i - 1), FALSE).err

\* a control byte: below 0x20, or 0x7f
HasCTLByte(s) == \E i \in DOMAIN s : Code(s[i]) < 32

\* net/url Parse, reduced to what the program reads of it: the error and Path
urlParse(rawURL) ==
    LET u == CutBefore(rawURL, "#")
        frag == CutAfter(rawURL, "#")
        sch == getScheme(u)
        rest1 == IF HasSuffix(sch.rest, <<"?">>) /\ Count(sch.rest, "?") = 1
                 THEN Take(sch.rest, Len(sch.rest) - 1)
                 ELSE CutBefore(sch.rest, "?")
        hasAuthority == /\ HasPrefix(rest1, <<"/", "/">>)
                        /\ (sch.scheme # Empty \/ ~HasPrefix(rest1, <<"/", "/", "/">>))
        afterSlashes == Drop(rest1, 2)
        authority == CutBefore(afterSlashes, "/")
        rest2 == IF hasAuthority
                 THEN Drop(afterSlashes, Len(authority))
                 ELSE rest1
        path == unescape(rest2, FALSE)
        Fail(e) == [err |-> e, Path |-> Empty]
    IN  IF HasCTLByte(u) THEN Fail("invalid control character in URL")
        ELSE IF u = <<"*">> THEN [err |-> NoErr, Path |-> u]
        ELSE IF sch.err # NoErr THEN Fail(sch.err)
        ELSE IF ~HasPrefix(rest1, <<"/">>) /\ sch.scheme # Empty
             THEN [err |-> unescape(frag, FALSE).err, Path |-> Empty]
        ELSE IF ~HasPrefix(rest1, <<"/">>) /\ Contains(CutBefore(rest1, "/"), ":")
             THEN Fail("first path segment in URL cannot contain colon")
        ELSE IF hasAuthority /\ parseAuthorityErr(authority) # NoErr
             THEN Fail(parseAuthorityErr(authority))
        ELSE IF path.err # NoErr THEN Fail(path.err)
        ELSE IF unescape(frag, FALSE).err # NoErr THEN Fail("invalid URL escape")
        ELSE [err |-> NoErr, Path |-> path.val]

-----------------------------------------------------------------------------
(* util.RunCommand and the three queries.                                   *)

NoCmd == [kind |-> "none", stdout |-> Empty, stderr |-> Empty, code |-> 0]

\* an external command ends in one of three ways: exit status 0 ("ok"), a
\* non-zero exit status ("exit"), or it could not be started ("nostart")
CmdOk(out) == [kind |-> "ok", stdout |-> out, stderr |-> Empty, code |-> 0]
CmdExit(out, errOut, c) == [kind |-> "exit", stdout |-> out, stderr |-> errOut, code |-> c]
CmdNoStart == [kind |-> "nostart", stdout |-> Empty, stderr |-> Empty, code |-> 0]

\* util.RunCommand: the output, the exit code and the error of cmd.Run()
RunCommand(res) ==
    [output   |-> IF res.kind = "ok" THEN res.stdout
                  ELSE res.stdout \o <<"\n">> \o res.stderr,
     exitCode |-> IF res.kind = "nostart" THEN -1 ELSE res.code,
     err      |-> IF res.kind = "ok" THEN NoErr
                  ELSE IF res.kind = "exit" THEN "exit status" ELSE "exec: not started"]

\* getRepoURL
getRepoURL(res) ==
    IF RunCommand(res).err # NoErr
    THEN [val |-> Empty, err |-> "failed to get repository name"]
    ELSE [val |-> TrimSpace(RunCommand(res).output), err |-> NoErr]

\* isSSHURL
isSSHURL(repoURL) == HasPrefix(repoURL, <<"g", "i", "t", "@">>)

\* a faulty extractRepoName: the first segment, not the last
extractRepoNameFirst(repoPath) == TrimSuffix(Split(repoPath, "/")[1], <<".", "g", "i", "t">>)
\* extractRepoName
extractRepoName(repoPath) ==
    LET repoNameParts == Split(repoPath, "/")
    IN  TrimSuffix(repoNameParts[Len(repoNameParts)], <<".", "g", "i", "t">>)

\* a lenient getRepoNameFromSSHURL: split on the first colon only
getRepoNameFromSSHURLFirstColon(repoURL) ==
    IF Len(Split(repoURL, ":")) < 2
    THEN [val |-> Empty, err |-> "invalid SSH URL format"]
    ELSE [val |-> extractRepoName(CutAfter(repoURL, ":")), err |-> NoErr]
\* getRepoNameFromSSHURL
getRepoNameFromSSHURL(repoURL) ==
    LET parts == Split(repoURL, ":")
    IN  IF Len(parts) # 2
        THEN [val |-> Empty, err |-> "invalid SSH URL format"]
        ELSE [val |-> extractRepoName(parts[2]), err |-> NoErr]

\* getRepoNameFromHTTPSURL
getRepoNameFromHTTPSURL(repoURL) ==
    LET parsedURL == urlParse(repoURL)
    IN  IF parsedURL.err # NoErr
        THEN [val |-> Empty, err |-> "failed to parse repository URL"]
        ELSE [val |-> extractRepoName(parsedURL.Path), err |-> NoErr]

\* getRepoName
getRepoName(res) ==
    LET repoURL == getRepoURL(res)
    IN  IF repoURL.err # NoErr THEN repoURL
        ELSE IF isSSHURL(repoURL.val) THEN getRepoNameFromSSHURL(repoURL.val)
        ELSE getRepoNameFromHTTPSURL(repoURL.val)

\* getCurrentBranch
getCurrentBranch(res) ==
    IF RunCommand(res).err # NoErr
    THEN [val |-> Empty, err |-> "failed to get current branch"]
    ELSE [val |-> TrimSpace(RunCommand(res).output), err |-> NoErr]

\* executeGitShortlog
executeGitShortlog(res) ==
    IF RunCommand(res).err # NoErr
    THEN [val |-> Empty, err |-> "error executing git shortlog"]
    ELSE [val |-> RunCommand(res).output, err |-> NoErr]

-----------------------------------------------------------------------------
(* parseLogOutput.                                                         *)

\* bufio dropCR
dropCR(line) ==
    IF line # Empty /\ line[Len(line)] = "\r" THEN Take(line, Len(line) - 1) ELSE line

\* bufio.Scanner with ScanLines: the tokens Scan delivers before it returns
\* false.  A line of MaxScanTokenSize bytes or more fills the buffer before
\* its newline is seen: Scan returns false with ErrTooLong and nothing after
\* that point is delivered.
RECURSIVE ScanLines(_)
ScanLines(data) ==
    IF data = Empty THEN <<>>
    ELSE LET i == Index(data, "\n")
             raw == IF i > 0 THEN Take(data, i - 1) ELSE data
         IN  IF Len(raw) >= MaxScanTokenSize THEN <<>>
             ELSE <<dropCR(raw)>> \o ScanLines(IF i > 0 THEN Drop(data, i) ELSE Empty)

\* the Author of one line, inside a sequence; no Author for a line of fewer
\* than two fields
AuthorOfLine(line) ==
    LET fields == Fields(line)
    IN  IF Len(fields) >= 2
        THEN <<[Name |-> Join(Tail(fields), <<" ">>), CommitCount |-> fields[1],
                RepoName |-> Empty, SearchURL |-> Empty]>>
        ELSE <<>>

RECURSIVE AuthorsOfLines(_)
AuthorsOfLines(lines) ==
    IF lines = <<>> THEN <<>>
    ELSE AuthorOfLine(lines[1]) \o AuthorsOfLines(Tail(lines))

\* parseLogOutput: scanner.Err() is never read and the error is always nil
parseLogOutput(out) == [val |-> AuthorsOfLines(ScanLines(out)), err |-> NoErr]

-----------------------------------------------------------------------------
(* generateSearchURLs.                                                     *)

baseURL ==
    <<"h","t","t","p","s",":","/","/","w","w","w",".","g","o","o","g","l","e",
      ".","c","o","m","/","s","e","a","r","c","h">>
tbmKey == <<"t", "b", "m">>
qKey == <<"q">>
isch == <<"i", "s", "c", "h">>

\* the order of Go strings: bytewise, a proper prefix first
RECURSIVE Less(_, _)
Less(a, b) ==
    IF b = Empty THEN FALSE
    ELSE IF a = Empty THEN TRUE
    ELSE IF a[1] = b[1] THEN Less(Tail(a), Tail(b))
    ELSE Code(a[1]) < Code(b[1])

\* the keys of a url.Values in sorted order
RECURSIVE SortedKeys(_)
SortedKeys(keys) ==
    IF keys = {} THEN <<>>
    ELSE LET k == CHOOSE x \in keys : \A y \in keys \ {x} : Less(x, y)
         IN  <<k>> \o SortedKeys(keys \ {k})

\* the keys in the order a broken encoder would emit them
RECURSIVE ReverseKeys(_)
ReverseKeys(keys) ==
    IF keys = {} THEN <<>>
    ELSE LET k == CHOOSE x \in keys : \A y \in keys \ {x} : Less(y, x)
         IN  <<k>> \o ReverseKeys(keys \ {k})

\* url.Values.Encode for one key: key=value for each of its values
RECURSIVE EncodeKey(_, _)
EncodeKey(k, vs) ==
    IF vs = <<>> THEN <<>>
    ELSE <<QueryEscape(k) \o <<"=">> \o QueryEscape(vs[1])>> \o EncodeKey(k, Tail(vs))

RECURSIVE EncodeKeys(_, _)
EncodeKeys(v, ks) ==
    IF ks = <<>> THEN <<>>
    ELSE EncodeKey(ks[1], v[ks[1]]) \o EncodeKeys(v, Tail(ks))

\* a faulty Encode: the keys in the reverse order
ValuesEncodeUnsorted(v) == Join(EncodeKeys(v, ReverseKeys(DOMAIN v)), <<"&">>)
\* url.Values.Encode: the pairs of the sorted keys, joined by '&'
ValuesEncode(v) == Join(EncodeKeys(v, SortedKeys(DOMAIN v)), <<"&">>)

\* fmt.Sprintf("%s %s", author.Name, repoName)
searchQuery(name, repo) == name \o <<" ">> \o repo

\* the body of the loop of generateSearchURLs
withSearchURL(author, repo) ==
    LET queryParams == (tbmKey :> <<isch>>) @@ (qKey :> <<searchQuery(author.Name, repo)>>)
    IN  [author EXCEPT !.RepoName = repo,
                       !.SearchURL = baseURL \o <<"?">> \o ValuesEncode(queryParams)]

\* a faulty generateSearchURLs: SearchURL filled in, RepoName left empty
generateSearchURLsURLOnly(as, repo) ==
    [i \in DOMAIN as |-> [as[i] EXCEPT !.SearchURL = withSearchURL(as[i], repo).SearchURL]]
\* generateSearchURLs
generateSearchURLs(as, repo) == [i \in DOMAIN as |-> withSearchURL(as[i], repo)]

-----------------------------------------------------------------------------
(* writeMarkdownFile.                                                      *)

\* author_template.tmpl: a hyperlinked author name and the commit count.
\* Execute hands the writer one Write per text and per field.
Render(author) ==
    <<<<"[">>, author.Name, <<"]", "(">>, author.SearchURL, <<")", " ">>,
      author.CommitCount>>

\* a faulty loop body: tmpl.Execute without the WriteString that follows it
RecordCallsNoNewline(author) == Render(author)
\* the Write calls of one iteration of the loop: tmpl.Execute, then
\* writer.WriteString("\n")
RecordCalls(author) == Render(author) \o <<<<"\n">>>>

\* a faulty open: an existing file keeps its content (no O_TRUNC)
osCreateNoTrunc(f) == IF f = NoFile THEN Empty ELSE f
\* os.Create: the content of the file once it is open
osCreate(f) == Empty

\* how many bytes a failing write of n bytes may have written
ShortCounts(n) == {0, 1, n - 1} \cap (0..(n - 1))

\* the outcomes of file.Write of n bytes: all of them, or fewer with an error
FileWriteOutcomes(n) ==
    {[n |-> n, ok |-> TRUE]} \cup {[n |-> k, ok |-> FALSE] : k \in ShortCounts(n)}

-----------------------------------------------------------------------------
(* Run.                                                                    *)

ErrRepo == "Error getting repository name:"
ErrBranch == "Error getting current branch:"
ErrShortlog == "Error executing git shortlog:"
ErrParse == "Error parsing log output:"
ErrWrite == "Error writing markdown file:"
Confirmation == "Markdown file generated successfully."

Stderr(text) == [stream |-> "stderr", text |-> text]
Stdout(text) == [stream |-> "stdout", text |-> text]

\* a faulty error branch: the message is printed and the return is missing
StageReturnsFallThrough(err, text, next) ==
    /\ msgs' = IF err # NoErr THEN Append(msgs, Stderr(text)) ELSE msgs
    /\ pc' = next
\* if err != nil { fmt.Fprintln(os.Stderr, text, err); return }
StageReturns(err, text, next) ==
    IF err # NoErr
    THEN msgs' = Append(msgs, Stderr(text)) /\ pc' = "failed"
    ELSE msgs' = msgs /\ pc' = next

writerVars == <<buf, werr, idx, calls>>
fileVars == <<file, fileAtStart, created>>

\* repoName, err := getRepoName(cwd)
RepoStage(results) ==
    /\ pc = "repo"
    /\ \E res \in results :
        /\ cmdRes' = res
        /\ repoName' = getRepoName(res).val
        /\ StageReturns(getRepoName(res).err, ErrRepo, "branch")
    /\ stages' = Append(stages, "repo")
    /\ UNCHANGED <<run, currentBranch, output, authors, authorsWithURL>>
    /\ UNCHANGED <<fileVars, writerVars>>

\* currentBranch, err := getCurrentBranch(cwd)
BranchStage(results) ==
    /\ pc = "branch"
    /\ \E res \in results :
        /\ cmdRes' = res
        /\ currentBranch' = getCurrentBranch(res).val
        /\ StageReturns(getCurrentBranch(res).err, ErrBranch, "shortlog")
    /\ stages' = Append(stages, "branch")
    /\ UNCHANGED <<run, repoName, output, authors, authorsWithURL>>
    /\ UNCHANGED <<fileVars, writerVars>>

\* output, err := executeGitShortlog(cwd, currentBranch)
ShortlogStage(results) ==
    /\ pc = "shortlog"
    /\ \E res \in results :
        /\ cmdRes' = res
        /\ output' = executeGitShortlog(res).val
        /\ StageReturns(executeGitShortlog(res).err, ErrShortlog, "parse")
    /\ stages' = Append(stages, "shortlog")
    /\ UNCHANGED <<run, repoName, currentBranch, authors, authorsWithURL>>
    /\ UNCHANGED <<fileVars, writerVars>>

\* authors, err := parseLogOutput(output)
ParseStage ==
    /\ pc = "parse"
    /\ authors' = parseLogOutput(output).val
    /\ StageReturns(parseLogOutput(output).err, ErrParse, "links")
    /\ stages' = Append(stages, "parse")
    /\ UNCHANGED <<run, cmdRes, repoName, currentBranch, output, authorsWithURL>>
    /\ UNCHANGED <<fileVars, writerVars>>

\* authorsWithURL := generateSearchURLs(authors, repoName)
LinksStage ==
    /\ pc = "links"
    /\ authorsWithURL' = generateSearchURLs(authors, repoName)
    /\ pc' = "write"
    /\ stages' = Append(stages, "links")
    /\ UNCHANGED <<run, cmdRes, repoName, currentBranch, output, authors, msgs>>
    /\ UNCHANGED <<fileVars, writerVars>>

runLocals == <<run, cmdRes, repoName, currentBranch, output, authors, authorsWithURL>>

\* err = writeMarkdownFile(...): file, err := os.Create(filename)
CreateFile ==
    /\ pc = "write"
    /\ stages' = Append(stages, "write")
    /\ \E ok \in BOOLEAN :
        IF ok
        THEN /\ file' = osCreate(file)
             /\ created' = TRUE
             /\ StageReturns(NoErr, ErrWrite, "tmpl")
        ELSE /\ UNCHANGED <<file, created>>
             /\ StageReturns("error creating file", ErrWrite, "tmpl")
    /\ UNCHANGED <<runLocals, fileAtStart, writerVars>>

\* writer := bufio.NewWriter(file); tmpl, err := template.ParseFS(...)
ParseTemplate ==
    /\ pc = "tmpl"
    /\ buf' = Empty
    /\ werr' = FALSE
    /\ idx' = 1
    /\ \E ok \in BOOLEAN :
        StageReturns(IF ok THEN NoErr ELSE "error parsing template", ErrWrite, "loop")
    /\ UNCHANGED <<runLocals, fileVars, calls, stages>>

\* for _, author := range authors: the next record, or the end of the loop
LoopHead ==
    /\ pc = "loop"
    /\ IF idx > Len(authorsWithURL)
       THEN pc' = "flush" /\ UNCHANGED calls
       ELSE pc' = "exec" /\ calls' = RecordCalls(authorsWithURL[idx])
    /\ UNCHANGED <<runLocals, fileVars, buf, werr, idx, msgs, stages>>

\* tmpl.Execute fails by itself, before one of its writes
ExecuteFails ==
    /\ pc = "exec"
    /\ Len(calls) > 1
    /\ StageReturns("error executing template", ErrWrite, "exec")
    /\ UNCHANGED <<runLocals, fileVars, writerVars, stages>>

\* one round of bufio.Writer.Write (or WriteString) for the bytes calls[1]:
\* while they do not fit, a direct write if the buffer is empty, else fill the
\* buffer and Flush; once they fit, copy them into the buffer.  A failing
\* write sets b.err, Write returns it and so do Execute and writeMarkdownFile.
WriteStep ==
    /\ pc = "exec"
    /\ LET p == calls[1]
           avail == BufSize - Len(buf)
           full == buf \o Take(p, avail)
       IN  IF Len(p) <= avail
           THEN /\ buf' = buf \o p
                /\ calls' = Tail(calls)
                /\ idx' = IF Tail(calls) = <<>> THEN idx + 1 ELSE idx
                /\ pc' = IF Tail(calls) = <<>> THEN "loop" ELSE "exec"
                /\ UNCHANGED <<file, werr, msgs>>
           ELSE IF buf = Empty
           THEN \E o \in FileWriteOutcomes(Len(p)) :
                /\ file' = file \o Take(p, o.n)
                /\ calls' = <<Drop(p, o.n)>> \o Tail(calls)
                /\ werr' = ~o.ok
                /\ StageReturns(IF o.ok THEN NoErr ELSE "write error", ErrWrite, "exec")
                /\ UNCHANGED <<buf, idx>>
           ELSE \E o \in FileWriteOutcomes(Len(full)) :
                /\ file' = file \o Take(full, o.n)
                /\ buf' = Drop(full, o.n)
                /\ calls' = <<Drop(p, avail)>> \o Tail(calls)
                /\ werr' = ~o.ok
                /\ StageReturns(IF o.ok THEN NoErr ELSE "write error", ErrWrite, "exec")
                /\ UNCHANGED idx
    /\ UNCHANGED <<runLocals, fileAtStart, created, stages>>

\* writer.Flush(), whose error is dropped; return nil; Run prints the
\* confirmation
FlushAndReturn ==
    /\ pc = "flush"
    /\ IF buf = Empty
       THEN UNCHANGED <<file, buf, werr>>
       ELSE \E o \in FileWriteOutcomes(Len(buf)) :
            /\ file' = file \o Take(buf, o.n)
            /\ buf' = Drop(buf, o.n)
            /\ werr' = ~o.ok
    /\ msgs' = Append(msgs, Stdout(Confirmation))
    /\ pc' = "done"
    /\ UNCHANGED <<runLocals, fileAtStart, created, idx, calls, stages>>

\* the program is started again, after it has ended
NextRun ==
    /\ pc \in {"done", "failed"}
    /\ run < MaxRuns
    /\ run' = run + 1
    /\ pc' = "repo"
    /\ cmdRes' = NoCmd
    /\ repoName' = Empty
    /\ currentBranch' = Empty
    /\ output' = Empty
    /\ authors' = <<>>
    /\ authorsWithURL' = <<>>
    /\ fileAtStart' = file
    /\ created' = FALSE
    /\ buf' = Empty
    /\ werr' = FALSE
    /\ idx' = 0
    /\ calls' = <<>>
    /\ msgs' = <<>>
    /\ stages' = <<>>
    /\ UNCHANGED file

-----------------------------------------------------------------------------
(* The runs of the program: what the three commands may return.            *)

gitAt == <<"g", "i", "t", "@">>
https == <<"h", "t", "t", "p", "s", ":", "/", "/">>
dotGit == <<".", "g", "i", "t">>
NL == <<"\n">>

RemoteResults ==
    {CmdOk(gitAt \o <<"h", ":", "g", "/", "w">> \o dotGit \o NL),
     CmdOk(https \o <<"h", "/", "g", "/", "v">> \o NL),
     CmdOk(gitAt \o <<"h", ":", "g", ":", "w">> \o NL),
     CmdExit(Empty, <<"x">>, 1),
     CmdNoStart}

BranchResults == {CmdOk(<<"m">> \o NL), CmdExit(Empty, <<"x">>, 128), CmdNoStart}

ShortlogResults ==
    {CmdOk(<<"4", "\t", "A", " ", "B", "\n", "7", "\t", "C", "\n">>),
     CmdOk(<<"9", " ", "D", "\n", "x", "\n">>),
     CmdOk(Empty),
     CmdExit(Empty, <<"x">>, 128),
     CmdNoStart}

Init ==
    /\ pc = "repo"
    /\ run = 1
    /\ cmdRes = NoCmd
    /\ repoName = Empty
    /\ currentBranch = Empty
    /\ output = Empty
    /\ authors = <<>>
    /\ authorsWithURL = <<>>
    /\ file = NoFile
    /\ fileAtStart = NoFile
    /\ created = FALSE
    /\ buf = Empty
    /\ werr = FALSE
    /\ idx = 0
    /\ calls = <<>>
    /\ msgs = <<>>
    /\ stages = <<>>

Next ==
    \/ RepoStage(RemoteResults)
    \/ BranchStage(BranchResults)
    \/ ShortlogStage(ShortlogResults)
    \/ ParseStage
    \/ LinksStage
    \/ CreateFile
    \/ ParseTemplate
    \/ LoopHead
    \/ ExecuteFails
    \/ WriteStep
    \/ FlushAndReturn
    \/ NextRun

Spec == Init /\ [][Next]_vars

-----------------------------------------------------------------------------
(* Repository-name resolution over every remote URL of a bounded shape.    *)

RepoChars == {"h", "/", ":", "."}
RepoPrefixes == {gitAt, https, <<"a", "@">>, Empty}
RepoSuffixes == {Empty, dotGit}

WideRemoteResults ==
    {CmdOk(pre \o body \o suf \o NL) :
        pre \in RepoPrefixes, body \in StringsUpTo(RepoChars, MaxBodyLen),
        suf \in RepoSuffixes}
    \cup {CmdExit(Empty, <<"x">>, 1), CmdNoStart}

NextRepo == RepoStage(WideRemoteResults)

SpecRepo == Init /\ [][NextRepo]_vars

\* the URL the remote-URL query printed, without the newline that ends it
ShownURL == Take(cmdRes.stdout, Len(cmdRes.stdout) - 1)

Resolved == pc # "repo" /\ cmdRes.kind = "ok"

\* host, group and repo of the standard forms: no '/', no ':'
FormParts ==
    {t \in StringsUpTo({"h", "."}, MaxBodyLen - 2) \X
           StringsUpTo({"h", "."}, MaxBodyLen - 2) \X
           StringsUpTo({"h", "."}, MaxBodyLen - 2) :
        Len(t[1]) + Len(t[2]) + Len(t[3]) <= MaxBodyLen - 2}

\* git@host:group/repo and https://host/group/repo, with and without ".git",
\* each with the repository name it stands for
StandardForms ==
    {<<pre[1] \o t[1] \o pre[2] \o t[2] \o <<"/">> \o t[3] \o suf, t[3]>> :
        pre \in {<<gitAt, <<":">>>>, <<https, <<"/">>>>}, t \in FormParts,
        suf \in RepoSuffixes}

StandardURLs == {f[1] : f \in StandardForms}
RepoOfForm == [u \in StandardURLs |-> (CHOOSE f \in StandardForms : f[1] = u)[2]]

\* C4: for every remote URL git@host:group/repo.git and every remote URL
\* https://host/group/repo.git, resolution succeeds and yields repo; for the
\* same forms without ".git" it yields the raw last segment
C4_StandardFormsYieldRepo ==
    (Resolved /\ ShownURL \in StandardURLs)
        => (pc = "branch" /\ repoName = RepoOfForm[ShownURL])

C4_Witness ==
    /\ pc = "branch"
    /\ ShownURL = https \o <<"h", "/", "h", "/", "h">> \o dotGit
    /\ repoName = <<"h">>

\* prefix@host:path, prefix and host not empty, no '@', ':' or '/' before
\* the '@' and none between the '@' and the first ':'
IsSSHStyle(u) ==
    \E i, j \in DOMAIN u :
        /\ 1 < i /\ i + 1 < j
        /\ u[i] = "@" /\ u[j] = ":"
        /\ \A k \in 1..(j - 1) : k # i => u[k] \notin {"@", ":", "/"}

\* the repository name of a path: its last '/' segment, ".git" dropped
NameOfPath(path) ==
    LET last == Drop(path, LastIndex(path, "/"))
    IN  IF HasSuffix(last, dotGit) THEN Take(last, Len(last) - 4) ELSE last

\* C7 as claimed, for the SSH-style URLs that start with git@: the URL is
\* split on its first colon and resolution succeeds with the name of
\* everything after that colon, further colons or not
C7_EverySSHURLResolves ==
    (Resolved /\ IsSSHStyle(ShownURL) /\ HasPrefix(ShownURL, gitAt))
        => (pc = "branch" /\ repoName = NameOfPath(CutAfter(ShownURL, ":")))

\* C7 as amended: a URL that starts with git@ resolves, from the part after
\* its colon, when it holds exactly one colon, and is rejected when it holds
\* none or more than one; an SSH-style URL with another prefix is rejected
C7_OnlyGitAtWithOneColonResolves ==
    /\ (Resolved /\ HasPrefix(ShownURL, gitAt))
        => IF Count(ShownURL, ":") = 1
           THEN pc = "branch" /\ repoName = NameOfPath(CutAfter(ShownURL, ":"))
           ELSE pc = "failed" /\ msgs = <<Stderr(ErrRepo)>>
    /\ (Resolved /\ IsSSHStyle(ShownURL) /\ ~HasPrefix(ShownURL, gitAt))
        => (pc = "failed" /\ msgs = <<Stderr(ErrRepo)>>)

C7_Witness ==
    /\ pc = "failed"
    /\ ShownURL = gitAt \o <<"h", ":", "h", ":", "h">>

-----------------------------------------------------------------------------
(* parseLogOutput over every text of a bounded length.                     *)

ParseChars == {"7", "A", " ", "\t", "\n"}

InitParse ==
    /\ pc = "parse"
    /\ run = 1
    /\ output \in StringsUpTo(ParseChars, MaxTextLen)
    /\ cmdRes = CmdOk(output)
    /\ repoName = <<"w">>
    /\ currentBranch = <<"m">>
    /\ authors = <<>>
    /\ authorsWithURL = <<>>
    /\ file = NoFile
    /\ fileAtStart = NoFile
    /\ created = FALSE
    /\ buf = Empty
    /\ werr = FALSE
    /\ idx = 0
    /\ calls = <<>>
    /\ msgs = <<>>
    /\ stages = <<"repo", "branch", "shortlog">>

NextParse == ParseStage

SpecParse == InitParse /\ [][NextParse]_vars

\* the lines of a text: what its newlines separate
LinesOf(text) == Split(text, "\n")

\* the whitespace-separated tokens of a line, by their first positions
TokenStarts(l) == {i \in DOMAIN l : ~IsSpace(l[i]) /\ (i = 1 \/ IsSpace(l[i - 1]))}
TokenAt(l, i) ==
    LET j == CHOOSE e \in i..Len(l) :
                /\ \A k \in i..e : ~IsSpace(l[k])
                /\ (e = Len(l) \/ IsSpace(l[e + 1]))
    IN  SubSeq(l, i, j)
RECURSIVE TokensFrom(_, _)
TokensFrom(l, starts) ==
    IF starts = {} THEN <<>>
    ELSE LET i == CHOOSE x \in starts : \A y \in starts : x <= y
         IN  <<TokenAt(l, i)>> \o TokensFrom(l, starts \ {i})
Tokens(l) == TokensFrom(l, TokenStarts(l))

\* the record of a line of two tokens or more
RecordOf(l) ==
    [Name |-> Join(Tail(Tokens(l)), <<" ">>), CommitCount |-> Tokens(l)[1],
     RepoName |-> Empty, SearchURL |-> Empty]

RECURSIVE RecordsOf(_)
RecordsOf(lines) ==
    IF lines = <<>> THEN <<>>
    ELSE (IF Len(Tokens(lines[1])) >= 2 THEN <<RecordOf(lines[1])>> ELSE <<>>)
         \o RecordsOf(Tail(lines))

\* C5: for every input text parseLogOutput returns, without error, one record
\* for each line of two tokens or more, in the order of the lines, and none
\* for any other line
C5_OneRecordPerValidLine ==
    pc # "parse" => (pc = "links" /\ authors = RecordsOf(LinesOf(output)))

\* what the code does: the same, for a text all of whose lines are shorter
\* than the scanner's token limit
AllLinesScannable(text) ==
    \A i \in DOMAIN LinesOf(text) : Len(LinesOf(text)[i]) < MaxScanTokenSize
ParseWithinTokenLimit ==
    (pc # "parse" /\ AllLinesScannable(output))
        => (pc = "links" /\ authors = RecordsOf(LinesOf(output)))

-----------------------------------------------------------------------------
(* generateSearchURLs over author names and lists of a bounded size.       *)

NameChars == {"A", " ", "&", "=", "+", "%", ";"}

\* a name parseLogOutput can produce: fields joined by single spaces
NamesOfLength(n) ==
    {s \in [1..n -> NameChars] :
        /\ s[1] # " " /\ s[n] # " "
        /\ \A i \in 1..(n - 1) : ~(s[i] = " " /\ s[i + 1] = " ")}
LinkNames == UNION {NamesOfLength(n) : n \in 1..MaxNameLen}

PartialAuthor(name, count) ==
    [Name |-> name, CommitCount |-> count, RepoName |-> Empty, SearchURL |-> Empty]

SmallAuthors ==
    {PartialAuthor(n, c) : n \in {<<"A">>, <<"A", " ", "&">>}, c \in {<<"4">>, <<"1", "2">>}}

LinkAuthorLists ==
    {<<PartialAuthor(n, <<"7">>)>> : n \in LinkNames}
    \cup UNION {[1..k -> SmallAuthors] : k \in 0..MaxAuthors}

LinkRepoNames == {Empty, <<"w">>, <<"&">>, <<"w", " ", "w">>}

InitLinks ==
    /\ pc = "links"
    /\ run = 1
    /\ cmdRes = NoCmd
    /\ repoName \in LinkRepoNames
    /\ currentBranch = <<"m">>
    /\ output = Empty
    /\ authors \in LinkAuthorLists
    /\ authorsWithURL = <<>>
    /\ file = NoFile
    /\ fileAtStart = NoFile
    /\ created = FALSE
    /\ buf = Empty
    /\ werr = FALSE
    /\ idx = 0
    /\ calls = <<>>
    /\ msgs = <<>>
    /\ stages = <<"repo", "branch", "shortlog", "parse">>

NextLinks == LinksStage

SpecLinks == InitLinks /\ [][NextLinks]_vars

\* net/url ParseQuery: the pairs between the '&', key and value unescaped;
\* a pair that holds ';' or a bad escape is an error and is left out
RECURSIVE ParsePairs(_, _)
ParsePairs(pairs, m) ==
    IF pairs = <<>> THEN m
    ELSE LET pair == pairs[1]
             k == unescape(CutBefore(pair, "="), TRUE)
             v == unescape(CutAfter(pair, "="), TRUE)
         IN  IF Contains(pair, ";") THEN ParsePairs(Tail(pairs), [m EXCEPT !.err = "semicolon"])
             ELSE IF pair = Empty THEN ParsePairs(Tail(pairs), m)
             ELSE IF k.err # NoErr \/ v.err # NoErr
                  THEN ParsePairs(Tail(pairs), [m EXCEPT !.err = "escape"])
             ELSE ParsePairs(Tail(pairs),
                    [m EXCEPT !.vals =
                        IF k.val \in DOMAIN m.vals
                        THEN [m.vals EXCEPT ![k.val] = Append(@, v.val)]
                        ELSE m.vals @@ (k.val :> <<v.val>>)])
ParseQuery(query) == ParsePairs(Split(query, "&"), [err |-> NoErr, vals |-> <<>>])

\* the keys of a query string as written, in the order they appear
KeysWritten(query) ==
    [i \in DOMAIN Split(query, "&") |-> CutBefore(Split(query, "&")[i], "=")]

\* C6: the URL is the base, '?', and a query string whose keys are q then
\* tbm and which decodes to exactly tbm = isch and q = name, a space, repoName
C6_URLDecodesToQuery ==
    pc = "write" =>
        \A i \in DOMAIN authorsWithURL :
            LET u == authorsWithURL[i].SearchURL
                query == Drop(u, Len(baseURL) + 1)
            IN  /\ Take(u, Len(baseURL) + 1) = baseURL \o <<"?">>
                /\ KeysWritten(query) = <<qKey, tbmKey>>
                /\ ParseQuery(query) =
                     [err |-> NoErr,
                      vals |-> (qKey :> <<authors[i].Name \o <<" ">> \o repoName>>)
                               @@ (tbmKey :> <<isch>>)]

C6_Witness ==
    /\ pc = "write"
    /\ repoName = <<"&">>
    /\ Len(authorsWithURL) = 1
    /\ authorsWithURL[1].Name = <<"%", " ", "+">>

\* C9: generateSearchURLs returns as many records, in the same order, each
\* with its Name and CommitCount and with both RepoName (the given name) and
\* SearchURL filled in, and leaves the records it was given as they were
C9_LinksKeepRecords ==
    [][pc = "links" =>
        /\ authors' = authors
        /\ DOMAIN authorsWithURL' = DOMAIN authors
        /\ \A i \in DOMAIN authors :
            /\ authorsWithURL'[i].Name = authors[i].Name
            /\ authorsWithURL'[i].CommitCount = authors[i].CommitCount
            /\ authorsWithURL'[i].RepoName = repoName
            /\ HasPrefix(authorsWithURL'[i].SearchURL, baseURL)
            /\ authors[i].RepoName = Empty
            /\ authors[i].SearchURL = Empty]_vars

C9_Witness ==
    /\ pc = "write"
    /\ Len(authorsWithURL) = MaxAuthors
    /\ authorsWithURL[1].Name # authorsWithURL[2].Name
    /\ authorsWithURL[1].RepoName = <<"w">>

-----------------------------------------------------------------------------
(* The whole run.                                                          *)

IsPrefix(a, b) == Len(a) <= Len(b) /\ Take(b, Len(a)) = a

StageOrder == <<"repo", "branch", "shortlog", "parse", "links", "write">>

Ended == pc \in {"done", "failed"}

\* a command of this run exited non-zero or could not be started
CommandFailed == cmdRes.kind \in {"exit", "nostart"}

\* the line of a record: the linked name, the count, one newline
LineOf(a) ==
    <<"[">> \o a.Name \o <<"]", "(">> \o a.SearchURL \o <<")", " ">>
        \o a.CommitCount \o <<"\n">>

\* the lines of the records, in their order
RECURSIVE ContentOf(_)
ContentOf(as) == IF as = <<>> THEN Empty ELSE LineOf(as[1]) \o ContentOf(Tail(as))

\* C1: when one of the three commands fails the run halts before
\* writeMarkdownFile: authors.md is not created, truncated or written and
\* keeps the content it had
C1_CommandFailureLeavesFile ==
    CommandFailed =>
        /\ pc = "failed"
        /\ file = fileAtStart
        /\ ~created
        /\ "write" \notin Range(stages)

C1_Witness ==
    /\ CommandFailed
    /\ stages = <<"repo", "branch", "shortlog">>
    /\ run = 2
    /\ fileAtStart \notin {NoFile, Empty}
    /\ file = fileAtStart

\* C2: the stages run in the fixed order, each at most once; when a stage
\* fails the run ends there with exactly one error message and without the
\* confirmation message
C2_FailureAbortsWithOneMessage ==
    /\ IsPrefix(stages, StageOrder)
    /\ (pc = "failed" \/ CommandFailed \/ werr) =>
        /\ pc = "failed"
        /\ Len(msgs) = 1
        /\ msgs[1].stream = "stderr"
        /\ Stdout(Confirmation) \notin Range(msgs)

\* what does hold of Run: the stages run in the fixed order, each at most
\* once, and a run that ended on an error a stage returned printed that one
\* error message and nothing else
RunAbortsOnReturnedError ==
    /\ IsPrefix(stages, StageOrder)
    /\ pc = "failed" =>
        /\ Len(msgs) = 1
        /\ msgs[1] = Stderr(CASE stages[Len(stages)] = "repo" -> ErrRepo
                             [] stages[Len(stages)] = "branch" -> ErrBranch
                             [] stages[Len(stages)] = "shortlog" -> ErrShortlog
                             [] stages[Len(stages)] = "parse" -> ErrParse
                             [] OTHER -> ErrWrite)
    /\ pc = "done" => (stages = StageOrder /\ msgs = <<Stdout(Confirmation)>>)
    /\ pc \notin {"done", "failed"} => msgs = <<>>

\* C3: after a run in which nothing failed authors.md holds exactly the
\* lines of the records, in their order, each with its one newline, whatever
\* the file held before the run
C3_FileHoldsExactlyTheRecords ==
    (pc = "done" /\ ~werr) =>
        /\ file = ContentOf(authorsWithURL)
        /\ Count(file, "\n") = Len(authorsWithURL)
        /\ Len(authorsWithURL) = Len(authors)

C3_Witness ==
    /\ pc = "done"
    /\ ~werr
    /\ run = 2
    /\ fileAtStart # NoFile
    /\ Len(authorsWithURL) = 1
    /\ Len(fileAtStart) > Len(file)
    /\ ~IsPrefix(file, fileAtStart)

\* C8: when the file cannot be created, or a render or a write of data to
\* the file fails, the final flush included, the run prints the write-failure
\* message and not the confirmation
C8_WriteFailureIsReported ==
    ("write" \in Range(stages) /\ (pc = "failed" \/ (Ended /\ werr))) =>
        msgs = <<Stderr(ErrWrite)>>

\* C10: from the creation of authors.md on, whatever happens, what the file
\* holds is a prefix of the lines of the records in their order
C10_FileIsPrefixOfRecords ==
    created => IsPrefix(file, ContentOf(authorsWithURL))

C10_Witness ==
    /\ created
    /\ pc = "failed"
    /\ run = 2
    /\ fileAtStart \notin {NoFile, Empty}
    /\ file # Empty
    /\ file # ContentOf(authorsWithURL)
    /\ Len(authorsWithURL) = 2
    /\ Len(file) > Len(LineOf(authorsWithURL[1]))

=============================================================================
